---- MODULE Spec2Model ----
(***************************************************************************)
(* Model of J4_sulcar.ino: the jacket firmware that broadcasts its id over *)
(* the radio, tracks which other jackets are in range from the RSSI byte   *)
(* of the frames it receives, and drives the LED strip with a state        *)
(* machine, all from one loop().                                           *)
(*                                                                         *)
(* One action, Tick, is one whole iteration of loop().  Its inputs are the *)
(* time that passed since the previous iteration and the bytes the radio   *)
(* delivered to the serial buffer meanwhile.  The statements of loop() are *)
(* operators on a record s of the program's variables, composed in the     *)
(* order of the source.                                                    *)
(*                                                                         *)
(* millis() is the variable clock.  It advances between iterations and in  *)
(* delay(50); the microseconds between two statements are not counted.     *)
(* unsigned long arithmetic is modelled on the integers: every stored time *)
(* is an earlier reading of the clock, so no difference is negative, and   *)
(* the 2^32 ms wrap (49.7 days) is outside the model's horizon.            *)
(* The strip's pixel colours are not kept: setPixelColor calls are         *)
(* recorded in px.  DEBUG_READ prints are not modelled, except the         *)
(* "reactivating jacket" line (reactivated).                               *)
(***************************************************************************)
EXTENDS Integers, Sequences, FiniteSets, TLC

----------------------------------------------------------------------------
(* Program constants *)

NUMPIXELS == 16
BROADCAST_1_DELAY == 1100
BROADCAST_2_DELAY == 1150
BROADCAST_3_DELAY == 1200
BROADCAST_4_DELAY == 1250
REACTIVATE_DELAY == 10000
SEEN_THRESHOLD == 15
JACKET_ID_1 == 0
JACKET_ID_2 == 1
JACKET_ID_3 == 2
JACKET_ID_4 == 3
JACKET_ID_LAST == JACKET_ID_4
MY_ID == JACKET_ID_4
NEO_RED == 16711680
NEO_GREEN == 65280
NEO_BLUE == 255
\* '\n'
NEWLINE == 10
\* delay(1000) in setup(): millis() when setup() ends
SETUP_DELAY == 1000
\* delay(50) of the test LED blink on a valid packet
TEST_LED_DELAY == 50
\* wipe_stc.msdelay and color_fade_stc.msdelay as set by the WIPE_START cases
J1_MSDELAY == 25
J2_MSDELAY == 50

Jackets == JACKET_ID_1 .. JACKET_ID_LAST

LedStates ==
  { "STATE_NONE",
    "STATE_J1_LED_WIPE_START", "STATE_J1_LED_WIPE_WORKING", "STATE_J1_LOST",
    "STATE_J2_LED_WIPE_START", "STATE_J2_LED_WIPE_WORKING", "STATE_J2_LOST",
    "STATE_J3_LED_WIPE_START", "STATE_J3_LED_WIPE_WORKING", "STATE_J3_LOST",
    "STATE_LED_DONE", "STATE_END" }

----------------------------------------------------------------------------
(* Bounds of the model *)

\* how long after setup() the clock may run: a whole wipe and its restart
\* under Spec, two beacon intervals under SpecBeacon, a few iterations under
\* SpecRadio, SpecExpire and SpecSched, and the longest wipe (WorstWipe) after
\* the first packets under SpecWipe and SpecStarve
MaxRun == 1350
MaxBeaconRun == 2500
MaxRadioRun == 200
MaxExpireRun == 25
MaxWipeRun == 3675
MaxStarveRun == 3800
MaxSchedRun == 75
\* bytes the serial receive buffer holds
MaxRx == 3
\* time between the end of one loop() iteration and the start of the next
LoopGap == {0, 25}
\* what the radio may deliver between two iterations: nothing, a frame
\* {rssi, id, terminator}, or a part of a frame.
\* PeerFrames: jackets 1, 2 and 3 in range, jacket 1 out of range (rssi = 15)
PeerFrames ==
  { << >>, <<20, 0, 10>>, <<15, 0, 10>>, <<20, 1, 10>>, <<20, 2, 10>> }
\* BeaconFrames: jacket 1 in range
BeaconFrames == { << >>, <<20, 0, 10>> }
\* the frames of PeerFrames, and: jacket 2 out of range, this jacket's own id
\* in and out of range, a wrong terminator, an id out of range, one byte and
\* two bytes of a frame
Arrivals ==
  PeerFrames \cup
  { <<9, 1, 10>>, <<20, 3, 10>>, <<15, 3, 10>>, <<20, 1, 65>>, <<20, 9, 10>>,
    <<20>>, <<0, 10>> }
\* WipeFrames: jackets 1, 2 and 3 in range
WipeFrames == { << >>, <<20, 0, 10>>, <<20, 1, 10>>, <<20, 2, 10>> }
\* StarveFrames: jackets 2 and 3 in range
StarveFrames == { << >>, <<20, 1, 10>>, <<20, 2, 10>> }
\* SpecExpire: when a reactivation countdown was started (0: none), and how
\* long before REACTIVATE_DELAY after SETUP_DELAY the first iteration starts
CountdownStarts == {0, SETUP_DELAY, SETUP_DELAY + 1}
ExpireLeads == {24, 25}

----------------------------------------------------------------------------
VARIABLES
  clock,                     \* millis()
  horizon,                   \* the model's time bound: clock never passes it
  radio,                     \* what the radio may deliver in this run
  broadcastDelay,
  broadcastDelayStartMs,
  reactivationDelayStartMs,
  jacketSeen,
  currentLedState,
  previousLedState,
  wipe_stc,
  color_fade_stc,
  rx,                        \* the serial receive buffer
  \* what the last iteration of loop() did
  avail,                     \* Serial.available() as loop() read it
  packet,                    \* loop()'s local packet[3]
  have_valid_packet,         \* loop()'s local flag
  currentMillis,             \* loop()'s local, as read before the expiry loop
  tx,                        \* frames written by broadcast()
  px,                        \* pixel indices given to strip.setPixelColor
  reactivated,               \* jackets whose reactivation timeout fired
  order,                     \* the steps of loop() in the order they ran
  \* history
  lastTx,                    \* millis() at the previous beacon, -1 if none
  lastPixelAt                \* millis() at the previous setPixelColor, -1 if none

vars ==
  << clock, horizon, radio, broadcastDelay, broadcastDelayStartMs,
     reactivationDelayStartMs, jacketSeen, currentLedState, previousLedState,
     wipe_stc, color_fade_stc, rx, avail, packet, have_valid_packet,
     currentMillis, tx, px, reactivated, order, lastTx, lastPixelAt >>

Beacon == << MY_ID, NEWLINE >>

----------------------------------------------------------------------------
(* The statements of loop(), as operators on a record s of the variables *)

\* statement F executed in the state x that the statements before it left
Then(F(_), x) == CHOOSE r \in { F(v) : v \in {x} } : TRUE

\* setNextLedState that does not retain the state it leaves
setNextLedStateForgetPrevious(s, state) ==
  [s EXCEPT !.currentLedState = state]

setNextLedState(s, state) ==
  [s EXCEPT !.previousLedState = s.currentLedState,
            !.currentLedState = state]

\* broadcast without broadcastDelayStartMs = millis()
broadcastNoRestart(s) ==
  LET s1 == [s EXCEPT !.order = Append(@, "broadcast")]
  IN IF s1.clock - s1.broadcastDelayStartMs >= s1.broadcastDelay
     THEN [s1 EXCEPT !.tx = Append(@, Beacon)]
     ELSE s1

broadcast(s) ==
  LET s1 == [s EXCEPT !.order = Append(@, "broadcast")]
  IN IF s1.clock - s1.broadcastDelayStartMs >= s1.broadcastDelay
     THEN [s1 EXCEPT !.tx = Append(@, Beacon),
                     !.broadcastDelayStartMs = s1.clock]
     ELSE s1

\* readPacket without the test of the terminator
readPacketAnyTerminator(s) ==
  LET s1 == [s EXCEPT !.order = Append(@, "read"), !.avail = Len(s.rx)]
  IN IF Len(s1.rx) >= 3
     THEN LET p == SubSeq(s1.rx, 1, 3)
          IN [s1 EXCEPT !.rx = SubSeq(s1.rx, 4, Len(s1.rx)),
                        !.packet = p,
                        !.have_valid_packet = (p[2] >= 0 /\ p[2] <= JACKET_ID_LAST)]
     ELSE s1

\* Serial.available() >= 3, Serial.readBytes(packet, 3) and the validation
readPacket(s) ==
  LET s1 == [s EXCEPT !.order = Append(@, "read"), !.avail = Len(s.rx)]
  IN IF Len(s1.rx) >= 3
     THEN LET p == SubSeq(s1.rx, 1, 3)
          IN [s1 EXCEPT !.rx = SubSeq(s1.rx, 4, Len(s1.rx)),
                        !.packet = p,
                        !.have_valid_packet =
                            (p[3] = NEWLINE /\ p[2] >= 0 /\ p[2] <= JACKET_ID_LAST)]
     ELSE s1

\* timedOut comparing the clock itself, not the time since start
timedOutAbsolute(start, now) == start > 0 /\ now > REACTIVATE_DELAY

\* is jacket i's reactivation timeout due at time now
timedOut(start, now) == start > 0 /\ now - start > REACTIVATE_DELAY

\* currentMillis = millis() and the for loop over the jackets
expire(s) ==
  LET now == s.clock
      due == { i \in Jackets : timedOut(s.reactivationDelayStartMs[i], now) }
  IN [s EXCEPT !.order = Append(@, "expire"),
               !.currentMillis = now,
               !.reactivationDelayStartMs =
                   [i \in Jackets |-> IF i \in due THEN 0 ELSE @[i]],
               !.jacketSeen =
                   [i \in Jackets |-> IF i \in due THEN FALSE ELSE @[i]],
               !.reactivated = due]

\* inRange with >= for >
inRangeInclusive(rssi) == rssi >= SEEN_THRESHOLD

\* is the jacket who sent the message close enough
inRange(rssi) == rssi > SEEN_THRESHOLD

\* update with the else bound to the inner if: a jacket in range that was
\* already seen is marked out of range
updateDanglingElse(s) ==
  LET s1 == [s EXCEPT !.order = Append(@, "update")]
  IN IF s1.have_valid_packet
     THEN LET s2 == [s1 EXCEPT !.clock = @ + TEST_LED_DELAY]
              id == s2.packet[2]
          IN IF inRange(s2.packet[1])
             THEN IF ~ s2.jacketSeen[id]
                  THEN [s2 EXCEPT !.jacketSeen[id] = TRUE]
                  ELSE [s2 EXCEPT !.jacketSeen[id] = FALSE,
                                  !.reactivationDelayStartMs[id] = 0]
             ELSE s2
     ELSE s1

\* update that starts the jacket's reactivation countdown when it marks the
\* jacket seen
updateStartsCountdown(s) ==
  LET s1 == [s EXCEPT !.order = Append(@, "update")]
  IN IF s1.have_valid_packet
     THEN LET s2 == [s1 EXCEPT !.clock = @ + TEST_LED_DELAY]
              id == s2.packet[2]
          IN IF inRange(s2.packet[1])
             THEN IF ~ s2.jacketSeen[id]
                  THEN [s2 EXCEPT !.jacketSeen[id] = TRUE,
                                  !.reactivationDelayStartMs[id] = s2.clock]
                  ELSE s2
             ELSE [s2 EXCEPT !.jacketSeen[id] = FALSE,
                             !.reactivationDelayStartMs[id] = 0]
     ELSE s1

\* update that skips a packet carrying this jacket's own id
updateIgnoreSelf(s) ==
  LET s1 == [s EXCEPT !.order = Append(@, "update")]
  IN IF s1.have_valid_packet
     THEN LET s2 == [s1 EXCEPT !.clock = @ + TEST_LED_DELAY]
              id == s2.packet[2]
          IN IF id = MY_ID
             THEN s2
             ELSE IF inRange(s2.packet[1])
             THEN [s2 EXCEPT !.jacketSeen[id] = TRUE]
             ELSE [s2 EXCEPT !.jacketSeen[id] = FALSE,
                             !.reactivationDelayStartMs[id] = 0]
     ELSE s1

\* if (have_valid_packet) { ... }
update(s) ==
  LET s1 == [s EXCEPT !.order = Append(@, "update")]
  IN IF s1.have_valid_packet
     THEN LET s2 == [s1 EXCEPT !.clock = @ + TEST_LED_DELAY]
              id == s2.packet[2]
          IN IF inRange(s2.packet[1])
             THEN IF ~ s2.jacketSeen[id]
                  THEN [s2 EXCEPT !.jacketSeen[id] = TRUE]
                  ELSE s2
             ELSE [s2 EXCEPT !.jacketSeen[id] = FALSE,
                             !.reactivationDelayStartMs[id] = 0]
     ELSE s1

\* determineNextLedState choosing, when a wipe is done, as it does from
\* idle: the seen jacket with the lowest id
determineNextLedStateFixedPriority(s) ==
  LET lowest(x) ==
        IF x.jacketSeen[JACKET_ID_1]
        THEN setNextLedState(x, "STATE_J1_LED_WIPE_START")
        ELSE IF x.jacketSeen[JACKET_ID_2]
        THEN setNextLedState(x, "STATE_J2_LED_WIPE_START")
        ELSE IF x.jacketSeen[JACKET_ID_3]
        THEN setNextLedState(x, "STATE_J3_LED_WIPE_START")
        ELSE x
      s1 == IF s.currentLedState = "STATE_NONE" THEN lowest(s) ELSE s
  IN IF s1.currentLedState = "STATE_LED_DONE"
     THEN IF s1.previousLedState \in { "STATE_J1_LED_WIPE_WORKING",
                                        "STATE_J2_LED_WIPE_WORKING",
                                        "STATE_J3_LED_WIPE_WORKING" }
          THEN lowest(s1)
          ELSE setNextLedState(s1, "STATE_J1_LOST")
     ELSE s1

\* determineNextLedState choosing, from idle, the seen jacket with the
\* highest id
determineNextLedStateHighestFirst(s) ==
  LET s1 ==
        IF s.currentLedState = "STATE_NONE"
        THEN IF s.jacketSeen[JACKET_ID_3]
             THEN setNextLedState(s, "STATE_J3_LED_WIPE_START")
             ELSE IF s.jacketSeen[JACKET_ID_2]
             THEN setNextLedState(s, "STATE_J2_LED_WIPE_START")
             ELSE IF s.jacketSeen[JACKET_ID_1]
             THEN setNextLedState(s, "STATE_J1_LED_WIPE_START")
             ELSE s
        ELSE s
  IN IF s1.currentLedState = "STATE_LED_DONE"
     THEN IF s1.previousLedState = "STATE_J1_LED_WIPE_WORKING"
          THEN IF s1.jacketSeen[JACKET_ID_2]
               THEN setNextLedState(s1, "STATE_J2_LED_WIPE_START")
               ELSE IF s1.jacketSeen[JACKET_ID_3]
               THEN setNextLedState(s1, "STATE_J3_LED_WIPE_START")
               ELSE IF s1.jacketSeen[JACKET_ID_1]
               THEN setNextLedState(s1, "STATE_J1_LED_WIPE_START")
               ELSE s1
          ELSE IF s1.previousLedState = "STATE_J2_LED_WIPE_WORKING"
          THEN IF s1.jacketSeen[JACKET_ID_3]
               THEN setNextLedState(s1, "STATE_J3_LED_WIPE_START")
               ELSE IF s1.jacketSeen[JACKET_ID_1]
               THEN setNextLedState(s1, "STATE_J1_LED_WIPE_START")
               ELSE IF s1.jacketSeen[JACKET_ID_2]
               THEN setNextLedState(s1, "STATE_J2_LED_WIPE_START")
               ELSE s1
          ELSE IF s1.previousLedState = "STATE_J3_LED_WIPE_WORKING"
          THEN IF s1.jacketSeen[JACKET_ID_1]
               THEN setNextLedState(s1, "STATE_J1_LED_WIPE_START")
               ELSE IF s1.jacketSeen[JACKET_ID_2]
               THEN setNextLedState(s1, "STATE_J2_LED_WIPE_START")
               ELSE IF s1.jacketSeen[JACKET_ID_3]
               THEN setNextLedState(s1, "STATE_J3_LED_WIPE_START")
               ELSE s1
          ELSE setNextLedState(s1, "STATE_J1_LOST")
     ELSE s1

determineNextLedState(s) ==
  LET s1 ==
        IF s.currentLedState = "STATE_NONE"
        THEN IF s.jacketSeen[JACKET_ID_1]
             THEN setNextLedState(s, "STATE_J1_LED_WIPE_START")
             ELSE IF s.jacketSeen[JACKET_ID_2]
             THEN setNextLedState(s, "STATE_J2_LED_WIPE_START")
             ELSE IF s.jacketSeen[JACKET_ID_3]
             THEN setNextLedState(s, "STATE_J3_LED_WIPE_START")
             ELSE s
        ELSE s
  IN IF s1.currentLedState = "STATE_LED_DONE"
     THEN IF s1.previousLedState = "STATE_J1_LED_WIPE_WORKING"
          THEN IF s1.jacketSeen[JACKET_ID_2]
               THEN setNextLedState(s1, "STATE_J2_LED_WIPE_START")
               ELSE IF s1.jacketSeen[JACKET_ID_3]
               THEN setNextLedState(s1, "STATE_J3_LED_WIPE_START")
               ELSE IF s1.jacketSeen[JACKET_ID_1]
               THEN setNextLedState(s1, "STATE_J1_LED_WIPE_START")
               ELSE s1
          ELSE IF s1.previousLedState = "STATE_J2_LED_WIPE_WORKING"
          THEN IF s1.jacketSeen[JACKET_ID_3]
               THEN setNextLedState(s1, "STATE_J3_LED_WIPE_START")
               ELSE IF s1.jacketSeen[JACKET_ID_1]
               THEN setNextLedState(s1, "STATE_J1_LED_WIPE_START")
               ELSE IF s1.jacketSeen[JACKET_ID_2]
               THEN setNextLedState(s1, "STATE_J2_LED_WIPE_START")
               ELSE s1
          ELSE IF s1.previousLedState = "STATE_J3_LED_WIPE_WORKING"
          THEN IF s1.jacketSeen[JACKET_ID_1]
               THEN setNextLedState(s1, "STATE_J1_LED_WIPE_START")
               ELSE IF s1.jacketSeen[JACKET_ID_2]
               THEN setNextLedState(s1, "STATE_J2_LED_WIPE_START")
               ELSE IF s1.jacketSeen[JACKET_ID_3]
               THEN setNextLedState(s1, "STATE_J3_LED_WIPE_START")
               ELSE s1
          ELSE setNextLedState(s1, "STATE_J1_LOST")
     ELSE s1

\* strip.setPixelColor(i, ...); strip.show()
setPixelColor(s, i) == [s EXCEPT !.px = Append(@, i)]

\* the colour sequence without the cursor going back to 0
nextWipeColorNoReset(s) ==
  IF s.wipe_stc.color = NEO_RED
  THEN [s EXCEPT !.wipe_stc.color = NEO_GREEN]
  ELSE IF s.wipe_stc.color = NEO_GREEN
  THEN [s EXCEPT !.wipe_stc.color = NEO_BLUE]
  ELSE setNextLedState(s, "STATE_LED_DONE")

\* the colour sequence shared by the J1 and J2 working cases
nextWipeColor(s) ==
  IF s.wipe_stc.color = NEO_RED
  THEN [s EXCEPT !.wipe_stc.color = NEO_GREEN, !.wipe_stc.i = 0]
  ELSE IF s.wipe_stc.color = NEO_GREEN
  THEN [s EXCEPT !.wipe_stc.color = NEO_BLUE, !.wipe_stc.i = 0]
  ELSE setNextLedState(s, "STATE_LED_DONE")

\* the working case without the wait for msdelay
j1WipeWorkingNoWait(s) ==
  LET s1 == [setPixelColor(s, s.wipe_stc.i) EXCEPT !.wipe_stc.i = @ + 1]
      s2 == IF s1.wipe_stc.i >= NUMPIXELS THEN nextWipeColor(s1) ELSE s1
  IN [s2 EXCEPT !.wipe_stc.start = s2.clock]

\* case STATE_J1_LED_WIPE_WORKING
j1WipeWorking(s) ==
  IF s.clock - s.wipe_stc.start < s.wipe_stc.msdelay
  THEN s
  ELSE LET s1 == [setPixelColor(s, s.wipe_stc.i) EXCEPT !.wipe_stc.i = @ + 1]
           s2 == IF s1.wipe_stc.i >= NUMPIXELS THEN nextWipeColor(s1) ELSE s1
       IN [s2 EXCEPT !.wipe_stc.start = s2.clock]

\* case STATE_J1_LED_WIPE_START, which falls through to the working case
j1WipeStart(s) ==
  Then(j1WipeWorking,
       setNextLedState(
         [s EXCEPT !.wipe_stc = [i |-> 0, color |-> NEO_RED,
                                 msdelay |-> J1_MSDELAY, start |-> s.clock]],
         "STATE_J1_LED_WIPE_WORKING"))

\* case STATE_J2_LED_WIPE_WORKING (the unfinished "if (co" line has no effect)
j2WipeWorking(s) ==
  IF s.clock - s.color_fade_stc.start < s.color_fade_stc.msdelay
  THEN s
  ELSE LET s1 == [setPixelColor(s, s.color_fade_stc.i)
                    EXCEPT !.color_fade_stc.i = @ + 1]
           s2 == IF s1.color_fade_stc.i >= NUMPIXELS THEN nextWipeColor(s1) ELSE s1
       IN [s2 EXCEPT !.color_fade_stc.start = s2.clock]

\* case STATE_J2_LED_WIPE_START: no setNextLedState, falls through
j2WipeStart(s) ==
  Then(j2WipeWorking,
       [s EXCEPT !.color_fade_stc = [i |-> 0, r |-> 255, g |-> 0, b |-> 255,
                                     msdelay |-> J2_MSDELAY, start |-> s.clock]])

\* case STATE_J1_LOST, STATE_J2_LOST, STATE_J3_LOST
lostStep(s) ==
  IF s.clock - s.wipe_stc.start < s.wipe_stc.msdelay
  THEN s
  ELSE LET s1 == [setPixelColor(s, s.wipe_stc.i) EXCEPT !.wipe_stc.i = @ + 1]
           s2 == IF s1.wipe_stc.i >= NUMPIXELS
                 THEN setNextLedState(s1, "STATE_NONE")
                 ELSE s1
       IN [s2 EXCEPT !.wipe_stc.start = s2.clock]

\* switch (currentLedState)
ledSwitch(s) ==
  CASE s.currentLedState = "STATE_NONE" -> s
    [] s.currentLedState = "STATE_J1_LED_WIPE_START" -> j1WipeStart(s)
    [] s.currentLedState = "STATE_J1_LED_WIPE_WORKING" -> j1WipeWorking(s)
    [] s.currentLedState = "STATE_J2_LED_WIPE_START" -> j2WipeStart(s)
    [] s.currentLedState = "STATE_J2_LED_WIPE_WORKING" -> j2WipeWorking(s)
    [] s.currentLedState \in { "STATE_J3_LED_WIPE_START",
                               "STATE_J3_LED_WIPE_WORKING",
                               "STATE_LED_DONE" } -> s
    [] s.currentLedState \in { "STATE_J1_LOST", "STATE_J2_LOST",
                               "STATE_J3_LOST" } -> lostStep(s)
    [] OTHER -> setNextLedState(s, "STATE_NONE")

\* an animation step that gives up jacket 1's wipe when jacket 1 is no
\* longer seen
animateCancel(s) ==
  IF s.currentLedState = "STATE_J1_LED_WIPE_WORKING" /\ ~ s.jacketSeen[JACKET_ID_1]
  THEN setNextLedState([s EXCEPT !.order = Append(@, "animate")], "STATE_NONE")
  ELSE Then(ledSwitch,
            Then(determineNextLedState, [s EXCEPT !.order = Append(@, "animate")]))

\* determineNextLedState() and the switch: one animation step
animate(s) ==
  Then(ledSwitch,
       Then(determineNextLedState, [s EXCEPT !.order = Append(@, "animate")]))

\* loop() with a wipe that keeps the processor: no broadcast() while a
\* wipe is working
loopBlockingWipe(s) ==
  IF s.currentLedState = "STATE_J1_LED_WIPE_WORKING"
  THEN Then(animate, Then(update, Then(expire, Then(readPacket,
         [s EXCEPT !.order = Append(@, "broadcast")]))))
  ELSE Then(animate, Then(update, Then(expire, Then(readPacket,
         Then(broadcast, s)))))

\* loop() with the packet handled before the expiry loop
loopUpdateFirst(s) ==
  Then(animate, Then(expire, Then(update, Then(readPacket, Then(broadcast, s)))))

\* the body of loop()
loop(s) ==
  Then(animate, Then(update, Then(expire, Then(readPacket, Then(broadcast, s)))))

\* the switch of setup()
setupBroadcastDelay(id) ==
  CASE id = JACKET_ID_1 -> BROADCAST_1_DELAY
    [] id = JACKET_ID_2 -> BROADCAST_2_DELAY
    [] id = JACKET_ID_3 -> BROADCAST_3_DELAY
    [] OTHER -> BROADCAST_4_DELAY

----------------------------------------------------------------------------
(* The state machine *)

\* the globals as C++ zero-initialises them and setup() leaves them
Booted ==
  /\ broadcastDelay = setupBroadcastDelay(MY_ID)
  /\ broadcastDelayStartMs = clock
  /\ currentLedState = "STATE_NONE"
  /\ previousLedState = "STATE_NONE"
  /\ wipe_stc = [i |-> 0, color |-> 0, msdelay |-> 0, start |-> 0]
  /\ color_fade_stc = [i |-> 0, r |-> 0, g |-> 0, b |-> 0, msdelay |-> 0, start |-> 0]
  /\ rx = << >>
  /\ avail = 0
  /\ packet = <<0, 0, 0>>
  /\ have_valid_packet = FALSE
  /\ currentMillis = clock
  /\ tx = << >>
  /\ px = << >>
  /\ reactivated = {}
  /\ order = << >>
  /\ lastTx = -1
  /\ lastPixelAt = -1

\* a long run with peers coming into range and jacket 1 leaving it
Init ==
  /\ clock = SETUP_DELAY
  /\ horizon = SETUP_DELAY + MaxRun
  /\ radio = PeerFrames
  /\ reactivationDelayStartMs = [i \in Jackets |-> 0]
  /\ jacketSeen = [i \in Jackets |-> FALSE]
  /\ Booted

\* two beacon intervals with jacket 1 in range
InitBeacon ==
  /\ clock = SETUP_DELAY
  /\ horizon = SETUP_DELAY + MaxBeaconRun
  /\ radio = BeaconFrames
  /\ reactivationDelayStartMs = [i \in Jackets |-> 0]
  /\ jacketSeen = [i \in Jackets |-> FALSE]
  /\ Booted

\* a run long enough for a whole wipe with a packet in every iteration
InitWipe ==
  /\ clock = SETUP_DELAY
  /\ horizon = SETUP_DELAY + MaxWipeRun
  /\ radio = WipeFrames
  /\ reactivationDelayStartMs = [i \in Jackets |-> 0]
  /\ jacketSeen = [i \in Jackets |-> FALSE]
  /\ Booted

\* a run of the same length with jackets 2 and 3 coming into range
InitStarve ==
  /\ clock = SETUP_DELAY
  /\ horizon = SETUP_DELAY + MaxStarveRun
  /\ radio = StarveFrames
  /\ reactivationDelayStartMs = [i \in Jackets |-> 0]
  /\ jacketSeen = [i \in Jackets |-> FALSE]
  /\ Booted

\* determineNextLedState on every input it decides on: idle, or done after
\* the wipe of any of the three jackets, with any combination of seen flags.
\* The program itself is idle only with no jacket seen and done only after
\* jacket 1's wipe.
InitSched ==
  /\ clock = SETUP_DELAY
  /\ horizon = SETUP_DELAY + MaxSchedRun
  /\ radio = PeerFrames
  /\ reactivationDelayStartMs = [i \in Jackets |-> 0]
  /\ jacketSeen \in [Jackets -> BOOLEAN]
  /\ \/ currentLedState = "STATE_NONE" /\ previousLedState = "STATE_NONE"
     \/ /\ currentLedState = "STATE_LED_DONE"
        /\ previousLedState \in { "STATE_J1_LED_WIPE_WORKING",
                                   "STATE_J2_LED_WIPE_WORKING",
                                   "STATE_J3_LED_WIPE_WORKING" }
  /\ broadcastDelay = setupBroadcastDelay(MY_ID)
  /\ broadcastDelayStartMs = clock
  /\ wipe_stc = [i |-> 0, color |-> 0, msdelay |-> 0, start |-> 0]
  /\ color_fade_stc = [i |-> 0, r |-> 0, g |-> 0, b |-> 0, msdelay |-> 0, start |-> 0]
  /\ rx = << >>
  /\ avail = 0
  /\ packet = <<0, 0, 0>>
  /\ have_valid_packet = FALSE
  /\ currentMillis = clock
  /\ tx = << >>
  /\ px = << >>
  /\ reactivated = {}
  /\ order = << >>
  /\ lastTx = -1
  /\ lastPixelAt = -1

\* a short run with every kind of arrival
InitRadio ==
  /\ clock = SETUP_DELAY
  /\ horizon = SETUP_DELAY + MaxRadioRun
  /\ radio = Arrivals
  /\ reactivationDelayStartMs = [i \in Jackets |-> 0]
  /\ jacketSeen = [i \in Jackets |-> FALSE]
  /\ Booted

\* the expiry loop on countdowns that are running: the code that would start
\* one is compiled out (#if 0), so the countdowns and the seen flags are
\* drawn here, shortly before REACTIVATE_DELAY has passed
InitExpire ==
  /\ clock \in { SETUP_DELAY + REACTIVATE_DELAY - lead : lead \in ExpireLeads }
  /\ horizon = clock + MaxExpireRun
  /\ radio = PeerFrames
  /\ reactivationDelayStartMs \in [Jackets -> CountdownStarts]
  /\ jacketSeen \in [Jackets -> BOOLEAN]
  /\ Booted

\* the variables on entry to loop(), gap ms after the previous iteration, the
\* radio having delivered the bytes arrived
entry(gap, arrived) ==
  [ clock |-> clock + gap,
    broadcastDelay |-> broadcastDelay,
    broadcastDelayStartMs |-> broadcastDelayStartMs,
    reactivationDelayStartMs |-> reactivationDelayStartMs,
    jacketSeen |-> jacketSeen,
    currentLedState |-> currentLedState,
    previousLedState |-> previousLedState,
    wipe_stc |-> wipe_stc,
    color_fade_stc |-> color_fade_stc,
    rx |-> rx \o arrived,
    avail |-> 0,
    packet |-> <<0, 0, 0>>,
    have_valid_packet |-> FALSE,
    currentMillis |-> clock + gap,
    tx |-> << >>,
    px |-> << >>,
    reactivated |-> {},
    order |-> << >> ]

\* one iteration of loop()
Tick(gap, arrived) ==
  /\ clock + gap <= horizon
  /\ arrived \in radio
  /\ Len(rx) + Len(arrived) <= MaxRx
  /\ \E s \in {loop(entry(gap, arrived))} :
        /\ clock' = s.clock
        /\ broadcastDelay' = s.broadcastDelay
        /\ broadcastDelayStartMs' = s.broadcastDelayStartMs
        /\ reactivationDelayStartMs' = s.reactivationDelayStartMs
        /\ jacketSeen' = s.jacketSeen
        /\ currentLedState' = s.currentLedState
        /\ previousLedState' = s.previousLedState
        /\ wipe_stc' = s.wipe_stc
        /\ color_fade_stc' = s.color_fade_stc
        /\ rx' = s.rx
        /\ avail' = s.avail
        /\ packet' = s.packet
        /\ have_valid_packet' = s.have_valid_packet
        /\ currentMillis' = s.currentMillis
        /\ tx' = s.tx
        /\ px' = s.px
        /\ reactivated' = s.reactivated
        /\ order' = s.order
        /\ lastTx' = IF s.tx # << >> THEN clock + gap ELSE lastTx
        /\ lastPixelAt' = IF s.px # << >> THEN s.clock ELSE lastPixelAt
  /\ UNCHANGED << horizon, radio >>

Next == \E gap \in LoopGap, arrived \in Arrivals : Tick(gap, arrived)

Spec == Init /\ [][Next]_vars

\* loop() is called again and again and the clock goes on: an iteration that
\* starts 25 ms after the previous one keeps happening while the horizon
\* allows it
Advance == \E arrived \in Arrivals : Tick(25, arrived)

SpecFair == Init /\ [][Next]_vars /\ WF_vars(Advance)

SpecBeacon == InitBeacon /\ [][Next]_vars

SpecRadio == InitRadio /\ [][Next]_vars

SpecExpire == InitExpire /\ [][Next]_vars

SpecWipe == InitWipe /\ [][Next]_vars /\ WF_vars(Advance)

SpecStarve == InitStarve /\ [][Next]_vars /\ WF_vars(Advance)

SpecSched == InitSched /\ [][Next]_vars

----------------------------------------------------------------------------
(* Presence *)

\* this iteration processed a valid packet of jacket p
PacketFor(p) == have_valid_packet /\ packet[2] = p
HighFor(p) == PacketFor(p) /\ packet[1] > SEEN_THRESHOLD
LowFor(p) == PacketFor(p) /\ packet[1] <= SEEN_THRESHOLD

\* C1: a valid packet of another jacket p with rssi > SEEN_THRESHOLD leaves
\* seen[p] true at the end of the iteration; seen[p] goes from true to false
\* only in an iteration that processes a valid packet of p with
\* rssi <= SEEN_THRESHOLD or in which p's reactivation timeout fires; and a
\* high-RSSI packet of a jacket already seen changes no presence entry.
C1_SeenUntilLost ==
  [][\A p \in Jackets \ {MY_ID} :
       /\ HighFor(p)' => jacketSeen'[p]
       /\ (jacketSeen[p] /\ ~ jacketSeen'[p]) => (LowFor(p)' \/ p \in reactivated')
       /\ (jacketSeen[p] /\ HighFor(p)') =>
            \A q \in Jackets \ reactivated' :
               /\ jacketSeen'[q] = jacketSeen[q]
               /\ reactivationDelayStartMs'[q] = reactivationDelayStartMs[q]
    ]_vars

\* a second high-RSSI packet of jacket 1 arrives while its wipe is running
C1_Witness ==
  /\ HighFor(JACKET_ID_1)
  /\ jacketSeen[JACKET_ID_1]
  /\ currentLedState = "STATE_J1_LED_WIPE_WORKING"
  /\ wipe_stc.i > 0

\* C2: after an iteration that processed a valid packet with
\* rssi <= SEEN_THRESHOLD (15 included), whatever seen and the countdown of
\* its jacket were, seen is false and the countdown is 0.
C2_LowClears ==
  (have_valid_packet /\ packet[1] <= SEEN_THRESHOLD) =>
     (~ jacketSeen[packet[2]] /\ reactivationDelayStartMs[packet[2]] = 0)

\* rssi = 15 from jacket 1 while its wipe, started when it was seen, is running
C2_Witness ==
  /\ have_valid_packet
  /\ packet = <<SEEN_THRESHOLD, JACKET_ID_1, NEWLINE>>
  /\ currentLedState = "STATE_J1_LED_WIPE_WORKING"
  /\ ~ jacketSeen[JACKET_ID_1]

\* C3: with fewer than 3 bytes available the iteration consumes none and has
\* no packet; with 3 or more it consumes exactly 3; the packet is valid
\* exactly when its third byte is '\n' and its id is in [0,3]; and an
\* iteration without a valid packet changes no seen flag and no countdown
\* and, from idle, starts no animation and sets no pixel.
C3_Framing ==
  [][/\ avail' < 3 =>
          (~ have_valid_packet' /\ packet' = <<0, 0, 0>> /\ Len(rx') = avail')
     /\ avail' >= 3 => Len(rx') = avail' - 3
     /\ have_valid_packet' <=>
          (avail' >= 3 /\ packet'[3] = NEWLINE /\ packet'[2] \in Jackets)
     /\ ~ have_valid_packet' =>
          /\ jacketSeen' = jacketSeen
          /\ reactivationDelayStartMs' = reactivationDelayStartMs
          /\ currentLedState = "STATE_NONE" =>
               (currentLedState' = "STATE_NONE" /\ px' = << >> /\ wipe_stc' = wipe_stc)
    ]_vars

\* the frame with the wrong terminator was read and dropped
C3_Witness ==
  /\ avail = 3
  /\ packet = <<20, 1, 65>>
  /\ ~ have_valid_packet
  /\ rx = << >>
  /\ currentLedState = "STATE_NONE"

\* C4: for a jacket p seen with a countdown started at t0, in an iteration
\* with no packet of p: if the clock reads t0 + REACTIVATE_DELAY + 1 or more
\* the countdown is cleared and seen[p] is false; if it reads
\* t0 + REACTIVATE_DELAY - 1 or less seen[p] stays true and the countdown
\* stays.
C4_Timeout ==
  [][\A p \in Jackets :
       (jacketSeen[p] /\ reactivationDelayStartMs[p] > 0 /\ ~ PacketFor(p)') =>
          /\ currentMillis' >= reactivationDelayStartMs[p] + REACTIVATE_DELAY + 1 =>
               /\ reactivationDelayStartMs'[p] = 0
               /\ ~ jacketSeen'[p]
               /\ p \in reactivated'
          /\ currentMillis' <= reactivationDelayStartMs[p] + REACTIVATE_DELAY - 1 =>
               /\ reactivationDelayStartMs'[p] = reactivationDelayStartMs[p]
               /\ jacketSeen'[p]
               /\ p \notin reactivated'
    ]_vars

\* jacket 1's countdown, started at SETUP_DELAY, fired 1 ms after the delay
C4_Witness ==
  /\ currentMillis = SETUP_DELAY + REACTIVATE_DELAY + 1
  /\ reactivated = {JACKET_ID_1}
  /\ ~ jacketSeen[JACKET_ID_1]
  /\ reactivationDelayStartMs[JACKET_ID_1] = 0
  /\ ~ have_valid_packet

\* C11 as claimed: a valid packet carrying this jacket's own id leaves every
\* seen flag and every countdown unchanged, and seen[MY_ID] is never set.
C11_SelfIgnored ==
  /\ [][PacketFor(MY_ID)' =>
          /\ jacketSeen' = jacketSeen
          /\ reactivationDelayStartMs' = reactivationDelayStartMs
       ]_vars
  /\ [](~ jacketSeen[MY_ID])

\* C11 as amended: a valid packet carrying this jacket's own id is handled
\* as any other: with rssi > SEEN_THRESHOLD it leaves seen[MY_ID] true, with
\* rssi <= SEEN_THRESHOLD it leaves seen[MY_ID] false and its countdown 0;
\* the entries of the other jackets are unchanged; and seen[MY_ID] starts
\* no animation: from idle with no other jacket seen the state stays idle
\* and no pixel is set.
C11_SelfTracked ==
  [][PacketFor(MY_ID)' =>
       /\ HighFor(MY_ID)' => jacketSeen'[MY_ID]
       /\ LowFor(MY_ID)' =>
            (~ jacketSeen'[MY_ID] /\ reactivationDelayStartMs'[MY_ID] = 0)
       /\ \A q \in Jackets \ {MY_ID} :
            /\ jacketSeen'[q] = jacketSeen[q]
            /\ reactivationDelayStartMs'[q] = reactivationDelayStartMs[q]
       /\ (currentLedState = "STATE_NONE"
             /\ \A q \in Jackets \ {MY_ID} : ~ jacketSeen[q]) =>
            (currentLedState' = "STATE_NONE" /\ px' = << >>)
    ]_vars

\* this jacket's own frame was processed in range and marked it seen, in idle
C11_Witness ==
  /\ HighFor(MY_ID)
  /\ jacketSeen[MY_ID]
  /\ currentLedState = "STATE_NONE"

----------------------------------------------------------------------------
(* Beacon *)

\* C5: an iteration writes the frame {MY_ID, '\n'} and sets
\* broadcastDelayStartMs to the current time exactly when the time since
\* broadcastDelayStartMs is at least broadcastDelay (1250 ms for jacket 4);
\* otherwise it writes nothing and leaves broadcastDelayStartMs; and two
\* consecutive beacons are at least broadcastDelay apart.
C5_Beacon ==
  [][/\ broadcastDelay = BROADCAST_4_DELAY
     /\ IF currentMillis' - broadcastDelayStartMs >= broadcastDelay
        THEN tx' = << <<MY_ID, NEWLINE>> >> /\ broadcastDelayStartMs' = currentMillis'
        ELSE tx' = << >> /\ broadcastDelayStartMs' = broadcastDelayStartMs
     /\ (tx' # << >> /\ lastTx # -1) => currentMillis' - lastTx >= broadcastDelay
    ]_vars

\* the second beacon has been sent
C5_Witness ==
  /\ tx # << >>
  /\ lastTx >= SETUP_DELAY + 2 * BROADCAST_4_DELAY

\* C6: whatever the animation state, every iteration makes the beacon
\* check first: after an iteration the beacon is never overdue as of the
\* time the iteration started, so a beacon due at the start of an iteration
\* is sent in that iteration; and with iterations going on and the clock
\* advancing a beacon is eventually sent, whatever the animation does.
C6_BeaconNotStarved ==
  /\ [](order # << >> =>
          /\ order[1] = "broadcast"
          /\ currentMillis - broadcastDelayStartMs < broadcastDelay)
  /\ <>(tx = << <<MY_ID, NEWLINE>> >>)

\* a beacon sent in an iteration that also set a pixel of jacket 1's wipe
C6_Witness ==
  /\ tx = << <<MY_ID, NEWLINE>> >>
  /\ currentLedState = "STATE_J1_LED_WIPE_WORKING"
  /\ px # << >>

----------------------------------------------------------------------------
(* Animation *)

\* msdelay of the phase that is running
StepDelay ==
  IF currentLedState \in {"STATE_J2_LED_WIPE_START", "STATE_J2_LED_WIPE_WORKING"}
  THEN color_fade_stc.msdelay
  ELSE wipe_stc.msdelay

\* C7: an iteration makes at most one setPixelColor call, and a call comes
\* at least the phase's msdelay (which is positive) after the previous one.
C7_OnePixelPerTick ==
  [][/\ Len(px') <= 1
     /\ px' # << >> =>
          /\ StepDelay' > 0
          /\ lastPixelAt # -1 => clock' - lastPixelAt >= StepDelay'
    ]_vars

\* the second pixel of a wipe has been set
C7_Witness ==
  /\ px = <<1>>
  /\ wipe_stc.i = 2
  /\ lastPixelAt = clock

\* C8 as claimed: the expiry check runs after the presence update, so a
\* jacket whose timeout is due in an iteration ends that iteration not seen
\* even when a high-RSSI packet of it was processed.
C8_ExpireAfterUpdate ==
  [][/\ order' = <<"broadcast", "read", "update", "expire", "animate">>
     /\ \A p \in Jackets :
          (timedOut(reactivationDelayStartMs[p], currentMillis') /\ HighFor(p)')
             => ~ jacketSeen'[p]
    ]_vars

\* C8 as amended: the steps run in the order beacon check, packet read,
\* presence expiry, presence update, animation step: the expiry check runs
\* before the presence update, so a jacket whose timeout is due in an
\* iteration that processes a high-RSSI packet of it ends the iteration
\* seen, with no countdown.
C8_ExpireBeforeUpdate ==
  [][/\ order' = <<"broadcast", "read", "expire", "update", "animate">>
     /\ \A p \in Jackets :
          (timedOut(reactivationDelayStartMs[p], currentMillis') /\ HighFor(p)')
             => /\ p \in reactivated'
                /\ jacketSeen'[p]
                /\ reactivationDelayStartMs'[p] = 0
    ]_vars

\* a timeout fired and the packet of the same iteration set seen again
C8_Witness ==
  \E p \in Jackets : p \in reactivated /\ HighFor(p) /\ jacketSeen[p]

\* the wipe-start and wipe-working states of jackets 1, 2 and 3
WipeStarts ==
  { "STATE_J1_LED_WIPE_START", "STATE_J2_LED_WIPE_START",
    "STATE_J3_LED_WIPE_START" }
WipeWorkings ==
  { "STATE_J1_LED_WIPE_WORKING", "STATE_J2_LED_WIPE_WORKING",
    "STATE_J3_LED_WIPE_WORKING" }

\* jacket p's wipe has been started: its wipe-start case has run (jacket 1,
\* which is then in its working state) or is the current state
WipeStarted(p) ==
  CASE p = JACKET_ID_1 -> /\ previousLedState = "STATE_J1_LED_WIPE_START"
                          /\ currentLedState = "STATE_J1_LED_WIPE_WORKING"
    [] p = JACKET_ID_2 -> currentLedState = "STATE_J2_LED_WIPE_START"
    [] OTHER -> currentLedState = "STATE_J3_LED_WIPE_START"

\* the longest a wipe of three colours takes when every iteration comes
\* 25 ms after the previous one and handles a packet
WorstWipe == 3 * NUMPIXELS * (25 + TEST_LED_DELAY)

\* C9: when jacket 1's wipe is done and jacket 1 has not been out of range
\* since (seen[0] still true), its wipe starts again only when more than
\* REACTIVATE_DELAY has passed since the wipe ended (wipe_stc.start in the
\* done state).
C9_NoImmediateRetrigger ==
  [][(/\ currentLedState = "STATE_LED_DONE"
      /\ previousLedState = "STATE_J1_LED_WIPE_WORKING"
      /\ jacketSeen[JACKET_ID_1]
      /\ previousLedState' = "STATE_J1_LED_WIPE_START")
        => currentMillis' - wipe_stc.start > REACTIVATE_DELAY
    ]_vars

\* C10: an iteration that finds the state done and no jacket seen returns
\* to idle.
C10_DoneToIdle ==
  [][(/\ currentLedState = "STATE_LED_DONE"
      /\ \A p \in Jackets \ {MY_ID} : ~ jacketSeen'[p])
        => currentLedState' = "STATE_NONE"
    ]_vars

\* C12: no iteration ends in a wipe-start state: the iteration that runs a
\* wipe-start case ends in that jacket's wipe-working state; and the
\* iteration that enters jacket 1's wipe has set its context to index 0,
\* start = now and the step delay.
C12_WipeStartOneTick ==
  [][/\ currentLedState' \notin WipeStarts
     /\ (previousLedState' = "STATE_J1_LED_WIPE_START"
          /\ previousLedState # "STATE_J1_LED_WIPE_START") =>
           /\ currentLedState' = "STATE_J1_LED_WIPE_WORKING"
           /\ wipe_stc' = [i |-> 0, color |-> NEO_RED,
                           msdelay |-> J1_MSDELAY, start |-> clock']
    ]_vars

\* Why the wipes of jackets 2 and 3 do not end, whatever the length of the
\* run: an iteration that finds the state STATE_J2_LED_WIPE_START or
\* STATE_J3_LED_WIPE_START leaves it there and sets no pixel.
StartStateIsAbsorbing ==
  [][(currentLedState \in { "STATE_J2_LED_WIPE_START",
                            "STATE_J3_LED_WIPE_START" }) =>
       /\ currentLedState' = currentLedState
       /\ px' = << >>
       /\ color_fade_stc.i' = 0
    ]_vars

\* C13: for each of jackets 1, 2 and 3, a wipe that was started early
\* enough to finish within the run is eventually done, iterations going on
\* with the clock advancing.
C13_WipeTerminates ==
  ((\E p \in Jackets \ {MY_ID} : WipeStarted(p))
     /\ clock + WorstWipe + 25 <= horizon)
        ~> (currentLedState = "STATE_LED_DONE")

\* C14: for each of jackets 1, 2 and 3, if the jacket is seen while a whole
\* wipe still fits in the run, then its wipe is eventually started or the
\* jacket is no longer seen, whichever other jackets are seen, iterations
\* going on with the clock advancing.
C14_NoStarvation ==
  \A p \in Jackets \ {MY_ID} :
     (jacketSeen[p] /\ clock + WorstWipe + 25 <= horizon)
        ~> (WipeStarted(p) \/ ~ jacketSeen[p])

----------------------------------------------------------------------------
(* Scheduler *)

\* the order in which the jackets are tried after jacket k's wipe
RoundRobin(k) == << (k + 1) % 3, (k + 2) % 3, k >>

\* the first jacket of that order that is seen
NextReady(k, seen) ==
  LET o == RoundRobin(k)
  IN IF seen[o[1]] THEN o[1] ELSE IF seen[o[2]] THEN o[2] ELSE o[3]

WorkingOf(k) ==
  CASE k = JACKET_ID_1 -> "STATE_J1_LED_WIPE_WORKING"
    [] k = JACKET_ID_2 -> "STATE_J2_LED_WIPE_WORKING"
    [] OTHER -> "STATE_J3_LED_WIPE_WORKING"

\* C15: an iteration that finds the state done with previous state the
\* wipe-working state of jacket k, and at its animation step at least one
\* of jackets 1, 2, 3 seen, starts the wipe of the first seen jacket in the
\* order k+1, k+2, k (mod 3).
C15_RoundRobin ==
  [][\A k \in Jackets \ {MY_ID} :
       (/\ currentLedState = "STATE_LED_DONE"
        /\ previousLedState = WorkingOf(k)
        /\ \E p \in Jackets \ {MY_ID} : jacketSeen'[p])
         => \E q \in Jackets \ {MY_ID} :
               q = NextReady(k, jacketSeen') /\ WipeStarted(q)'
    ]_vars

\* jacket 3's wipe was started from done although jacket 1 is seen: jacket 2
\* is not seen and the wipe that was done was jacket 1's or jacket 2's
C15_Witness ==
  /\ currentLedState = "STATE_J3_LED_WIPE_START"
  /\ previousLedState = "STATE_LED_DONE"
  /\ jacketSeen[JACKET_ID_1]
  /\ ~ jacketSeen[JACKET_ID_2]
  /\ jacketSeen[JACKET_ID_3]

\* C16: an iteration that finds the state idle starts the wipe of the seen
\* jacket with the lowest id, if one of jackets 1, 2, 3 is seen at its
\* animation step; if none is, the state stays idle and no pixel is set.
C16_IdlePriority ==
  [][currentLedState = "STATE_NONE" =>
       IF \E p \in Jackets \ {MY_ID} : jacketSeen'[p]
       THEN \E q \in Jackets \ {MY_ID} :
               /\ jacketSeen'[q]
               /\ \A p \in Jackets \ {MY_ID} : jacketSeen'[p] => q <= p
               /\ WipeStarted(q)'
       ELSE /\ currentLedState' = "STATE_NONE"
            /\ px' = << >>
            /\ wipe_stc' = wipe_stc /\ color_fade_stc' = color_fade_stc
    ]_vars

\* jacket 2's wipe was started from idle with jackets 2 and 3 both seen
C16_Witness ==
  /\ currentLedState = "STATE_J2_LED_WIPE_START"
  /\ previousLedState = "STATE_NONE"
  /\ ~ jacketSeen[JACKET_ID_1]
  /\ jacketSeen[JACKET_ID_2]
  /\ jacketSeen[JACKET_ID_3]

\* C17: an iteration that finds a wipe working, whatever packet it handles
\* and whatever timeout fires in it, either leaves the state and the colour
\* and the cursor as they are and sets no pixel, or sets the pixel under the
\* cursor and moves the cursor on by one (to 0, with the next colour, after
\* the last pixel), or, only after the last pixel of the last colour, sets
\* that pixel and goes to done.  The only wipe ever working is jacket 1's.
C17_NoInterruption ==
  [][(currentLedState \in WipeWorkings) =>
       /\ currentLedState = "STATE_J1_LED_WIPE_WORKING"
       /\ \/ /\ currentLedState' = currentLedState
             /\ previousLedState' = previousLedState
             /\ px' = << >>
             /\ wipe_stc.i' = wipe_stc.i
             /\ wipe_stc.color' = wipe_stc.color
          \/ /\ currentLedState' = currentLedState
             /\ previousLedState' = previousLedState
             /\ px' = << wipe_stc.i >>
             /\ \/ /\ wipe_stc.i < NUMPIXELS - 1
                   /\ wipe_stc.i' = wipe_stc.i + 1
                   /\ wipe_stc.color' = wipe_stc.color
                \/ /\ wipe_stc.i = NUMPIXELS - 1
                   /\ wipe_stc.i' = 0
                   /\ << wipe_stc.color, wipe_stc.color' >> \in
                        { <<NEO_RED, NEO_GREEN>>, <<NEO_GREEN, NEO_BLUE>> }
          \/ /\ currentLedState' = "STATE_LED_DONE"
             /\ previousLedState' = currentLedState
             /\ px' = << NUMPIXELS - 1 >>
             /\ wipe_stc.i = NUMPIXELS - 1
             /\ wipe_stc.color = NEO_BLUE
    ]_vars

\* jacket 1 was reported out of range while the last colour of its wipe
\* was being written, and the wipe went on
C17_Witness ==
  /\ LowFor(JACKET_ID_1)
  /\ ~ jacketSeen[JACKET_ID_1]
  /\ currentLedState = "STATE_J1_LED_WIPE_WORKING"
  /\ wipe_stc.color = NEO_BLUE
  /\ px # << >>

\* C18: every setPixelColor call of an iteration has a pixel index in
\* 0 .. NUMPIXELS - 1.
C18_PixelInRange ==
  \A k \in 1 .. Len(px) : px[k] >= 0 /\ px[k] < NUMPIXELS

\* the last pixel of the first colour was set and the cursor is back at 0
C18_Witness ==
  /\ px = << NUMPIXELS - 1 >>
  /\ wipe_stc.i = 0
  /\ wipe_stc.color = NEO_GREEN

C20_LostUnreachable ==
  /\ currentLedState \notin
       { "STATE_J1_LOST", "STATE_J2_LOST", "STATE_J3_LOST", "STATE_END" }
  /\ currentLedState = "STATE_LED_DONE" => previousLedState \in WipeWorkings

\* a wipe is done
C20_Witness ==
  /\ currentLedState = "STATE_LED_DONE"
  /\ previousLedState = "STATE_J1_LED_WIPE_WORKING"
  /\ px = << NUMPIXELS - 1 >>

====
